---- MODULE Spec2Model ----
(***************************************************************************)
(* A model of the Irish travel advisory pipeline: scrape_advisories.py     *)
(* (listing parser, advisory extractor, name normalizer, dataset           *)
(* assembler) and create_map.py (map renderer).                            *)
(*                                                                         *)
(* Python strings are modelled as sequences of one-character strings, so   *)
(* that substring tests, case conversion, splitting and stripping are      *)
(* computed the way the source computes them.                              *)
(***************************************************************************)
EXTENDS Naturals, Integers, Sequences, FiniteSets, TLC

VARIABLES
    pc,               \* position of main() in scrape_advisories.py
    anchors,          \* hrefs of the <a href=...> elements of the index page, in document order
    scanned,          \* number of anchors the for loop of get_country_urls has processed
    country_links,    \* the list country_links of get_country_urls
    countries_df,     \* value returned by get_country_urls: None or the rows of the DataFrame
    advisory_levels,  \* the list advisory_levels of main
    served,           \* requests sent by get_advisory_level, in order, with the response received
    dataset,          \* countries_with_data of main
    csv,              \* the file irish_travel_advisories.csv
    failures,         \* external failures that have occurred so far
    escaped,          \* entry points an exception has propagated out of
    mpc,              \* position of create_map() in create_map.py
    png,              \* irish_travel_advisory_map.png has been written
    html,             \* irish_travel_advisory_map.html has been written
    ex_resp,          \* a response handed to get_advisory_level
    ex_level,         \* what get_advisory_level returned for ex_resp
    ex_done,          \* get_advisory_level has been applied to ex_resp
    nm_in,            \* a display name handed to standardize_country_name
    nm_out            \* results of applying standardize_country_name once, twice, ...

vars == <<pc, anchors, scanned, country_links, countries_df, advisory_levels,
          served, dataset, csv, failures, escaped, mpc, png, html,
          ex_resp, ex_level, ex_done, nm_in, nm_out>>

(***************************************************************************)
(* Bounds of the model.                                                    *)
(***************************************************************************)
MaxAnchors == 2
MaxDivs == 1
MaxH3 == 1
MaxCalls == 2

(***************************************************************************)
(* Python str operations.                                                  *)
(***************************************************************************)
UpperAlpha ==
    <<"A","B","C","D","E","F","G","H","I","J","K","L","M","N","O","P","Q","R","S","T","U","V","W","X","Y","Z","Ô">>
LowerAlpha ==
    <<"a","b","c","d","e","f","g","h","i","j","k","l","m","n","o","p","q","r","s","t","u","v","w","x","y","z","ô">>
\* the characters for which str.isspace() is true: the ones str.strip() removes
\* and the ones the pattern \S+ splits a class attribute at.  A character that
\* cannot be written in a string of this language stands as the name of its
\* code point (U+2000 to U+200A, U+2028, U+2029, U+202F, U+205F, U+3000).
Whitespace ==
    {" ", "\t", "\n", "\r", "\f", "", "", "", "", "", "", " ", " ",
     "U+2000", "U+2001", "U+2002", "U+2003", "U+2004", "U+2005", "U+2006", "U+2007",
     "U+2008", "U+2009", "U+200A", "U+2028", "U+2029", "U+202F", "U+205F", "U+3000"}

IsUpper(c) == \E i \in 1..Len(UpperAlpha) : UpperAlpha[i] = c
IsLower(c) == \E i \in 1..Len(LowerAlpha) : LowerAlpha[i] = c
IsCased(c) == IsUpper(c) \/ IsLower(c)
LowerChar(c) ==
    IF IsUpper(c) THEN LowerAlpha[CHOOSE i \in 1..Len(UpperAlpha) : UpperAlpha[i] = c] ELSE c
UpperChar(c) ==
    IF IsLower(c) THEN UpperAlpha[CHOOSE i \in 1..Len(LowerAlpha) : LowerAlpha[i] = c] ELSE c

\* s.lower()
lower(s) == [i \in 1..Len(s) |-> LowerChar(s[i])]

\* sub in s
str_in(sub, s) ==
    \E i \in 0..(Len(s) - Len(sub)) : SubSeq(s, i + 1, i + Len(sub)) = sub

\* s.count(c) for a one-character c
count(s, c) == Cardinality({i \in 1..Len(s) : s[i] = c})

\* s.startswith(p)
startswith(s, p) == Len(s) >= Len(p) /\ SubSeq(s, 1, Len(p)) = p

\* s.rstrip(c) for a one-character c
RECURSIVE rstrip(_, _)
rstrip(s, c) ==
    IF s # <<>> /\ s[Len(s)] = c THEN rstrip(SubSeq(s, 1, Len(s) - 1), c) ELSE s

\* s.strip()
RECURSIVE strip(_)
strip(s) ==
    IF s = <<>> THEN s
    ELSE IF s[1] \in Whitespace THEN strip(Tail(s))
    ELSE IF s[Len(s)] \in Whitespace THEN strip(SubSeq(s, 1, Len(s) - 1))
    ELSE s

\* s.split(c) for a one-character c
RECURSIVE split(_, _)
split(s, c) ==
    IF \A i \in 1..Len(s) : s[i] # c THEN <<s>>
    ELSE LET i == CHOOSE k \in 1..Len(s) : s[k] = c /\ \A j \in 1..(k - 1) : s[j] # c
         IN  <<SubSeq(s, 1, i - 1)>> \o split(SubSeq(s, i + 1, Len(s)), c)

\* s.replace(a, b) for one-character a and b
replace(s, a, b) == [i \in 1..Len(s) |-> IF s[i] = a THEN b ELSE s[i]]

\* s.title(): a cased character is upper-cased when the character before it
\* is not cased, lower-cased otherwise
title(s) ==
    [i \in 1..Len(s) |->
        IF i > 1 /\ IsCased(s[i - 1]) THEN LowerChar(s[i]) ELSE UpperChar(s[i])]

\* ' '.join(parts)
RECURSIVE join(_)
join(parts) ==
    IF parts = <<>> THEN <<>>
    ELSE IF Len(parts) = 1 THEN parts[1]
    ELSE parts[1] \o <<" ">> \o join(Tail(parts))

\* the whitespace-separated tokens of an attribute value (how BeautifulSoup
\* turns a class attribute into a list)
RECURSIVE tokens(_)
tokens(s) ==
    IF s = <<>> THEN <<>>
    ELSE IF s[1] \in Whitespace THEN tokens(Tail(s))
    ELSE LET n == IF \E k \in 1..Len(s) : s[k] \in Whitespace
                  THEN (CHOOSE k \in 1..Len(s) :
                            s[k] \in Whitespace /\ \A j \in 1..(k - 1) : s[j] \notin Whitespace) - 1
                  ELSE Len(s)
         IN  <<SubSeq(s, 1, n)>> \o tokens(SubSeq(s, n + 1, Len(s)))

\* all sequences over S of length at most n
SeqsUpTo(S, n) == UNION {[1..k -> S] : k \in 0..n}

(***************************************************************************)
(* Listing parser: get_country_urls.                                       *)
(***************************************************************************)
\* '/advice/'
s_advice ==
    <<"/","a","d","v","i","c","e","/">>
\* 'http'
s_http ==
    <<"h","t","t","p">>
\* 'https://www.ireland.ie'
s_host ==
    <<"h","t","t","p","s",":","/","/","w","w","w",".","i","r","e","l","a","n","d",".","i","e">>
\* 'covid'
s_covid ==
    <<"c","o","v","i","d">>
\* 'index'
s_index ==
    <<"i","n","d","e","x">>
\* 'search'
s_search ==
    <<"s","e","a","r","c","h">>
\* 'about'
s_about ==
    <<"a","b","o","u","t">>

MinSlashes == 5
ExclusionKeywords == {s_covid, s_index, s_search, s_about}

\* the two conditions under which the loop keeps an anchor
HasAdvicePattern(href) == str_in(s_advice, href) /\ count(href, "/") >= MinSlashes
HasExclusionKeyword(href) == \E x \in ExclusionKeywords : str_in(x, lower(href))
IsCountryHref(href) == HasAdvicePattern(href) /\ ~HasExclusionKeyword(href)

full_url(href) == IF startswith(href, s_http) THEN href ELSE s_host \o href
country_slug(href) ==
    LET parts == split(rstrip(href, "/"), "/") IN parts[Len(parts)]
country_name(href) == title(replace(country_slug(href), "-", " "))
CountryLink(href) == [country |-> country_name(href), url |-> full_url(href)]

\* drop_duplicates left out: every row is kept
drop_duplicates_kept_all(rows) == rows

\* DataFrame.drop_duplicates(): the first occurrence of every row, in order
RECURSIVE drop_duplicates(_)
drop_duplicates(rows) ==
    IF rows = <<>> THEN <<>>
    ELSE LET n    == Len(rows)
             init == SubSeq(rows, 1, n - 1)
         IN  IF \E j \in 1..(n - 1) : rows[j] = rows[n]
             THEN drop_duplicates(init)
             ELSE Append(drop_duplicates(init), rows[n])

\* the list country_links after the loop has run over the given anchors
RECURSIVE collect_links(_)
collect_links(hrefs) ==
    IF hrefs = <<>> THEN <<>>
    ELSE IF IsCountryHref(Head(hrefs))
         THEN <<CountryLink(Head(hrefs))>> \o collect_links(Tail(hrefs))
         ELSE collect_links(Tail(hrefs))

\* a DataFrame value or None
NoneFrame == [none |-> TRUE, rows |-> <<>>]
Frame(rows) == [none |-> FALSE, rows |-> rows]

\* what get_country_urls returns when nothing raises
get_country_urls(hrefs) == Frame(drop_duplicates(collect_links(hrefs)))

\* hrefs found on the index page
\* '/en/dfa/overseas-travel/advice/france/'
h_france ==
    <<"/","e","n","/","d","f","a","/","o","v","e","r","s","e","a","s","-","t","r","a","v","e","l","/","a","d","v","i","c","e","/","f","r","a","n","c","e","/">>
\* '/en/dfa/overseas-travel/advice/france'
h_france_bare ==
    <<"/","e","n","/","d","f","a","/","o","v","e","r","s","e","a","s","-","t","r","a","v","e","l","/","a","d","v","i","c","e","/","f","r","a","n","c","e">>
\* 'https://www.ireland.ie/en/dfa/overseas-travel/advice/france/'
h_france_abs ==
    <<"h","t","t","p","s",":","/","/","w","w","w",".","i","r","e","l","a","n","d",".","i","e","/","e","n","/","d","f","a","/","o","v","e","r","s","e","a","s","-","t","r","a","v","e","l","/","a","d","v","i","c","e","/","f","r","a","n","c","e","/">>
\* '/en/dfa/overseas-travel/advice/south-korea/'
h_south_korea ==
    <<"/","e","n","/","d","f","a","/","o","v","e","r","s","e","a","s","-","t","r","a","v","e","l","/","a","d","v","i","c","e","/","s","o","u","t","h","-","k","o","r","e","a","/">>
\* '/en/dfa/overseas-travel/advice/usa/'
h_usa ==
    <<"/","e","n","/","d","f","a","/","o","v","e","r","s","e","a","s","-","t","r","a","v","e","l","/","a","d","v","i","c","e","/","u","s","a","/">>
\* '/en/dfa/overseas-travel/advice/'
h_advice_home ==
    <<"/","e","n","/","d","f","a","/","o","v","e","r","s","e","a","s","-","t","r","a","v","e","l","/","a","d","v","i","c","e","/">>
\* '/en/dfa/overseas-travel/advice/covid-19/'
h_covid ==
    <<"/","e","n","/","d","f","a","/","o","v","e","r","s","e","a","s","-","t","r","a","v","e","l","/","a","d","v","i","c","e","/","c","o","v","i","d","-","1","9","/">>
\* '/en/dfa/overseas-travel/advice/COVID-Travel/'
h_covid_upper ==
    <<"/","e","n","/","d","f","a","/","o","v","e","r","s","e","a","s","-","t","r","a","v","e","l","/","a","d","v","i","c","e","/","C","O","V","I","D","-","T","r","a","v","e","l","/">>
\* '/en/dfa/overseas-travel/advice/search/'
h_search ==
    <<"/","e","n","/","d","f","a","/","o","v","e","r","s","e","a","s","-","t","r","a","v","e","l","/","a","d","v","i","c","e","/","s","e","a","r","c","h","/">>
\* '/en/dfa/overseas-travel/advice/index.html'
h_index ==
    <<"/","e","n","/","d","f","a","/","o","v","e","r","s","e","a","s","-","t","r","a","v","e","l","/","a","d","v","i","c","e","/","i","n","d","e","x",".","h","t","m","l">>
\* '/en/dfa/about/'
h_about ==
    <<"/","e","n","/","d","f","a","/","a","b","o","u","t","/">>
\* '/advice/usa/'
h_short ==
    <<"/","a","d","v","i","c","e","/","u","s","a","/">>
\* 'https://www.ireland.ie/advice/uk/'
h_uk_abs ==
    <<"h","t","t","p","s",":","/","/","w","w","w",".","i","r","e","l","a","n","d",".","i","e","/","a","d","v","i","c","e","/","u","k","/">>

Hrefs == {h_france, h_france_bare, h_france_abs, h_south_korea, h_usa,
          h_advice_home, h_covid, h_covid_upper, h_search, h_index, h_about,
          h_short, h_uk_abs}
HrefsSmall == {h_france, h_france_bare, h_france_abs, h_usa, h_covid}

(***************************************************************************)
(* Advisory extractor: get_advisory_level.                                 *)
(*                                                                         *)
(* A page is the sequence of its <div> elements (each the raw value of its *)
(* class attribute) and the sequence of its <h3> elements (class attribute *)
(* and text), in document order.  A response is a page, or an error of     *)
(* requests.get / raise_for_status / the parser.                           *)
(***************************************************************************)
\* 'accordion_travel'
s_accordion_travel ==
    <<"a","c","c","o","r","d","i","o","n","_","t","r","a","v","e","l">>
\* 'accordion__title'
s_accordion_title ==
    <<"a","c","c","o","r","d","i","o","n","_","_","t","i","t","l","e">>
\* 'do-not-travel'
m_do_not_travel ==
    <<"d","o","-","n","o","t","-","t","r","a","v","e","l">>
\* 'avoid-non-essential-travel'
m_avoid_non_essential_travel ==
    <<"a","v","o","i","d","-","n","o","n","-","e","s","s","e","n","t","i","a","l","-","t","r","a","v","e","l">>
\* 'avoid-unnecessary-travel'
m_avoid_unnecessary_travel ==
    <<"a","v","o","i","d","-","u","n","n","e","c","e","s","s","a","r","y","-","t","r","a","v","e","l">>
\* 'high-degree-of-caution'
m_high_degree_of_caution ==
    <<"h","i","g","h","-","d","e","g","r","e","e","-","o","f","-","c","a","u","t","i","o","n">>
\* 'high-degree-caution'
m_high_degree_caution ==
    <<"h","i","g","h","-","d","e","g","r","e","e","-","c","a","u","t","i","o","n">>
\* 'normal-precautions'
m_normal_precautions ==
    <<"n","o","r","m","a","l","-","p","r","e","c","a","u","t","i","o","n","s">>
\* 'do not travel'
t_do_not_travel ==
    <<"d","o"," ","n","o","t"," ","t","r","a","v","e","l">>
\* 'avoid non-essential travel'
t_avoid_non_essential_travel ==
    <<"a","v","o","i","d"," ","n","o","n","-","e","s","s","e","n","t","i","a","l"," ","t","r","a","v","e","l">>
\* 'avoid unnecessary travel'
t_avoid_unnecessary_travel ==
    <<"a","v","o","i","d"," ","u","n","n","e","c","e","s","s","a","r","y"," ","t","r","a","v","e","l">>
\* 'high degree of caution'
t_high_degree_of_caution ==
    <<"h","i","g","h"," ","d","e","g","r","e","e"," ","o","f"," ","c","a","u","t","i","o","n">>
\* 'normal precautions'
t_normal_precautions ==
    <<"n","o","r","m","a","l"," ","p","r","e","c","a","u","t","i","o","n","s">>

\* None, as the level get_advisory_level returns when it cannot determine one
NoneLevel == 0
Levels == 1..4

\* the if/elif chain on classes_str with the level-2 test moved to the front
classify_class_caution_first(classes_str) ==
    IF str_in(m_high_degree_of_caution, classes_str)
       \/ str_in(m_high_degree_caution, classes_str) THEN 2
    ELSE IF str_in(m_do_not_travel, classes_str) THEN 4
    ELSE IF str_in(m_avoid_non_essential_travel, classes_str)
            \/ str_in(m_avoid_unnecessary_travel, classes_str) THEN 3
    ELSE IF str_in(m_normal_precautions, classes_str) THEN 1
    ELSE NoneLevel

\* the if/elif chain on classes_str
classify_class(classes_str) ==
    IF str_in(m_do_not_travel, classes_str) THEN 4
    ELSE IF str_in(m_avoid_non_essential_travel, classes_str)
            \/ str_in(m_avoid_unnecessary_travel, classes_str) THEN 3
    ELSE IF str_in(m_high_degree_of_caution, classes_str)
            \/ str_in(m_high_degree_caution, classes_str) THEN 2
    ELSE IF str_in(m_normal_precautions, classes_str) THEN 1
    ELSE NoneLevel

\* the if/elif chain on title_text
classify_title(title_text) ==
    IF str_in(t_do_not_travel, title_text) THEN 4
    ELSE IF str_in(t_avoid_non_essential_travel, title_text)
            \/ str_in(t_avoid_unnecessary_travel, title_text) THEN 3
    ELSE IF str_in(t_high_degree_of_caution, title_text) THEN 2
    ELSE IF str_in(t_normal_precautions, title_text) THEN 1
    ELSE NoneLevel

\* an element whose class attribute has the given class among its tokens
HasClass(attr, cls) == \E i \in 1..Len(tokens(attr)) : tokens(attr)[i] = cls

\* soup.find('div', class_='accordion_travel'): index of the first match, 0 for None
find_advisory_div(page) ==
    IF \E i \in 1..Len(page.divs) : HasClass(page.divs[i], s_accordion_travel)
    THEN CHOOSE i \in 1..Len(page.divs) :
            /\ HasClass(page.divs[i], s_accordion_travel)
            /\ \A j \in 1..(i - 1) : ~HasClass(page.divs[j], s_accordion_travel)
    ELSE 0

\* soup.find('h3', class_='accordion__title'): index of the first match, 0 for None
find_accordion_title(page) ==
    IF \E i \in 1..Len(page.h3s) : HasClass(page.h3s[i].class, s_accordion_title)
    THEN CHOOSE i \in 1..Len(page.h3s) :
            /\ HasClass(page.h3s[i].class, s_accordion_title)
            /\ \A j \in 1..(i - 1) : ~HasClass(page.h3s[j].class, s_accordion_title)
    ELSE 0

\* classes_str without the call of lower()
classes_str_of_not_lowered(page) == join(tokens(page.divs[find_advisory_div(page)]))

\* classes_str of the advisory div
classes_str_of(page) == lower(join(tokens(page.divs[find_advisory_div(page)])))
\* title_text of the accordion title
title_text_of(page) == lower(strip(page.h3s[find_accordion_title(page)].text))

\* level returned by the first block (the advisory div), NoneLevel when it returns nothing
level_from_div(page) ==
    IF find_advisory_div(page) # 0 THEN classify_class(classes_str_of(page)) ELSE NoneLevel

\* level returned by the fallback block (the h3 title)
level_from_title(page) ==
    IF find_accordion_title(page) # 0 THEN classify_title(title_text_of(page)) ELSE NoneLevel

EmptyPage == [divs |-> <<>>, h3s |-> <<>>]
FetchError == [ok |-> FALSE, page |-> EmptyPage]
Response(page) == [ok |-> TRUE, page |-> page]

\* get_advisory_level that returns None when the advisory div is found but
\* carries no marker, instead of falling through to the h3 title
get_advisory_level_div_only(resp) ==
    IF ~resp.ok THEN NoneLevel
    ELSE IF find_advisory_div(resp.page) # 0 THEN level_from_div(resp.page)
    ELSE level_from_title(resp.page)

get_advisory_level(resp) ==
    IF ~resp.ok THEN NoneLevel
    ELSE IF level_from_div(resp.page) # NoneLevel THEN level_from_div(resp.page)
    ELSE level_from_title(resp.page)

\* class attributes of <div> elements
\* 'accordion_travel do-not-travel accordion is-open'
c_dnt ==
    <<"a","c","c","o","r","d","i","o","n","_","t","r","a","v","e","l"," ","d","o","-","n","o","t","-","t","r","a","v","e","l"," ","a","c","c","o","r","d","i","o","n"," ","i","s","-","o","p","e","n">>
\* 'accordion_travel Do-Not-Travel accordion'
c_dnt_mixed ==
    <<"a","c","c","o","r","d","i","o","n","_","t","r","a","v","e","l"," ","D","o","-","N","o","t","-","T","r","a","v","e","l"," ","a","c","c","o","r","d","i","o","n">>
\* 'accordion_travel do not travel'
c_dnt_spaced ==
    <<"a","c","c","o","r","d","i","o","n","_","t","r","a","v","e","l"," ","d","o"," ","n","o","t"," ","t","r","a","v","e","l">>
\* 'accordion_travel high-degree-of-caution do-not-travel'
c_hdc_dnt ==
    <<"a","c","c","o","r","d","i","o","n","_","t","r","a","v","e","l"," ","h","i","g","h","-","d","e","g","r","e","e","-","o","f","-","c","a","u","t","i","o","n"," ","d","o","-","n","o","t","-","t","r","a","v","e","l">>
\* 'accordion_travel\tavoid-non-essential-travel'
c_avoid ==
    <<"a","c","c","o","r","d","i","o","n","_","t","r","a","v","e","l","\t","a","v","o","i","d","-","n","o","n","-","e","s","s","e","n","t","i","a","l","-","t","r","a","v","e","l">>
\* 'accordion_travel high-degree-caution'
c_hdc ==
    <<"a","c","c","o","r","d","i","o","n","_","t","r","a","v","e","l"," ","h","i","g","h","-","d","e","g","r","e","e","-","c","a","u","t","i","o","n">>
\* 'accordion_travel normal-precautions avoid-unnecessary-travel'
c_np_avoid ==
    <<"a","c","c","o","r","d","i","o","n","_","t","r","a","v","e","l"," ","n","o","r","m","a","l","-","p","r","e","c","a","u","t","i","o","n","s"," ","a","v","o","i","d","-","u","n","n","e","c","e","s","s","a","r","y","-","t","r","a","v","e","l">>
\* 'accordion_travel accordion is-open'
c_plain ==
    <<"a","c","c","o","r","d","i","o","n","_","t","r","a","v","e","l"," ","a","c","c","o","r","d","i","o","n"," ","i","s","-","o","p","e","n">>
\* 'accordion do-not-travel'
c_other ==
    <<"a","c","c","o","r","d","i","o","n"," ","d","o","-","n","o","t","-","t","r","a","v","e","l">>
\* 'accordion_travel normal-precautions'
c_np ==
    <<"a","c","c","o","r","d","i","o","n","_","t","r","a","v","e","l"," ","n","o","r","m","a","l","-","p","r","e","c","a","u","t","i","o","n","s">>
\* 'accordion_travel\rdo-not-travel'
c_dnt_cr ==
    <<"a","c","c","o","r","d","i","o","n","_","t","r","a","v","e","l","\r","d","o","-","n","o","t","-","t","r","a","v","e","l">>
ClassAttrs == {c_dnt, c_dnt_mixed, c_dnt_spaced, c_hdc_dnt, c_avoid, c_hdc,
               c_np_avoid, c_plain, c_other, c_np, c_dnt_cr}

\* <h3> elements
\* 'title'
s_title ==
    <<"t","i","t","l","e">>
\* 'Do Not Travel'
x_dnt ==
    <<"D","o"," ","N","o","t"," ","T","r","a","v","e","l">>
\* '  DO NOT TRAVEL\n'
x_dnt_upper ==
    <<" "," ","D","O"," ","N","O","T"," ","T","R","A","V","E","L","\n">>
\* 'High Degree of Caution'
x_hdc ==
    <<"H","i","g","h"," ","D","e","g","r","e","e"," ","o","f"," ","C","a","u","t","i","o","n">>
\* 'Avoid non-essential travel'
x_avoid ==
    <<"A","v","o","i","d"," ","n","o","n","-","e","s","s","e","n","t","i","a","l"," ","t","r","a","v","e","l">>
\* 'Normal precautions; high degree of caution near the border'
x_np_hdc ==
    <<"N","o","r","m","a","l"," ","p","r","e","c","a","u","t","i","o","n","s",";"," ","h","i","g","h"," ","d","e","g","r","e","e"," ","o","f"," ","c","a","u","t","i","o","n"," ","n","e","a","r"," ","t","h","e"," ","b","o","r","d","e","r">>
\* 'High degree of caution - do not travel to the north'
x_hdc_dnt ==
    <<"H","i","g","h"," ","d","e","g","r","e","e"," ","o","f"," ","c","a","u","t","i","o","n"," ","-"," ","d","o"," ","n","o","t"," ","t","r","a","v","e","l"," ","t","o"," ","t","h","e"," ","n","o","r","t","h">>
\* 'Security status'
x_status ==
    <<"S","e","c","u","r","i","t","y"," ","s","t","a","t","u","s">>
\* '\rDo Not Travel\r\n'
x_dnt_crlf ==
    <<"\r","D","o"," ","N","o","t"," ","T","r","a","v","e","l","\r","\n">>
H3(cls, text) == [class |-> cls, text |-> text]
Headings == {H3(s_accordion_title, x_dnt), H3(s_accordion_title, x_dnt_upper),
             H3(s_accordion_title, x_hdc), H3(s_accordion_title, x_avoid),
             H3(s_accordion_title, x_np_hdc), H3(s_accordion_title, x_hdc_dnt),
             H3(s_accordion_title, x_status), H3(s_accordion_title, x_dnt_crlf),
             H3(s_title, x_dnt)}

Pages == {[divs |-> d, h3s |-> h] : d \in SeqsUpTo(ClassAttrs, MaxDivs),
                                    h \in SeqsUpTo(Headings, MaxH3)}
Responses == {FetchError} \cup {Response(p) : p \in Pages}

\* the responses the country pages give in a run of main
SmallResponses ==
    {FetchError,
     Response([divs |-> <<c_dnt>>, h3s |-> <<>>]),
     Response([divs |-> <<c_plain>>, h3s |-> <<H3(s_accordion_title, x_hdc)>>]),
     Response([divs |-> <<c_np>>, h3s |-> <<>>]),
     Response(EmptyPage)}

(***************************************************************************)
(* Name normalizer: standardize_country_name.                              *)
(***************************************************************************)
\* 'Usa'
n_usa ==
    <<"U","s","a">>
\* 'United States Of America'
n_united_states_of_america ==
    <<"U","n","i","t","e","d"," ","S","t","a","t","e","s"," ","O","f"," ","A","m","e","r","i","c","a">>
\* 'United States'
n_united_states ==
    <<"U","n","i","t","e","d"," ","S","t","a","t","e","s">>
\* 'Uk'
n_uk ==
    <<"U","k">>
\* 'United Kingdom'
n_united_kingdom ==
    <<"U","n","i","t","e","d"," ","K","i","n","g","d","o","m">>
\* 'Uae'
n_uae ==
    <<"U","a","e">>
\* 'United Arab Emirates'
n_united_arab_emirates ==
    <<"U","n","i","t","e","d"," ","A","r","a","b"," ","E","m","i","r","a","t","e","s">>
\* 'Democratic Republic Of The Congo'
n_democratic_republic_of_the_congo_t ==
    <<"D","e","m","o","c","r","a","t","i","c"," ","R","e","p","u","b","l","i","c"," ","O","f"," ","T","h","e"," ","C","o","n","g","o">>
\* 'Democratic Republic of the Congo'
n_democratic_republic_of_the_congo ==
    <<"D","e","m","o","c","r","a","t","i","c"," ","R","e","p","u","b","l","i","c"," ","o","f"," ","t","h","e"," ","C","o","n","g","o">>
\* 'Drc'
n_drc ==
    <<"D","r","c">>
\* 'Congo'
n_congo ==
    <<"C","o","n","g","o">>
\* 'Republic of the Congo'
n_republic_of_the_congo ==
    <<"R","e","p","u","b","l","i","c"," ","o","f"," ","t","h","e"," ","C","o","n","g","o">>
\* 'North Korea'
n_north_korea ==
    <<"N","o","r","t","h"," ","K","o","r","e","a">>
\* 'Dpr Korea'
n_dpr_korea ==
    <<"D","p","r"," ","K","o","r","e","a">>
\* 'South Korea'
n_south_korea ==
    <<"S","o","u","t","h"," ","K","o","r","e","a">>
\* 'Republic Of Korea'
n_republic_of_korea ==
    <<"R","e","p","u","b","l","i","c"," ","O","f"," ","K","o","r","e","a">>
\* 'Czech Republic'
n_czech_republic ==
    <<"C","z","e","c","h"," ","R","e","p","u","b","l","i","c">>
\* 'Czechia'
n_czechia ==
    <<"C","z","e","c","h","i","a">>
\* "Cote D'ivoire"
n_cote_divoire_t ==
    <<"C","o","t","e"," ","D","'","i","v","o","i","r","e">>
\* "Côte d'Ivoire"
n_cote_divoire ==
    <<"C","ô","t","e"," ","d","'","I","v","o","i","r","e">>
\* 'Ivory Coast'
n_ivory_coast ==
    <<"I","v","o","r","y"," ","C","o","a","s","t">>
\* 'Burma'
n_burma ==
    <<"B","u","r","m","a">>
\* 'Myanmar'
n_myanmar ==
    <<"M","y","a","n","m","a","r">>
\* 'Cape Verde'
n_cape_verde ==
    <<"C","a","p","e"," ","V","e","r","d","e">>
\* 'Cabo Verde'
n_cabo_verde ==
    <<"C","a","b","o"," ","V","e","r","d","e">>
\* 'East Timor'
n_east_timor ==
    <<"E","a","s","t"," ","T","i","m","o","r">>
\* 'Timor-Leste'
n_timor_leste ==
    <<"T","i","m","o","r","-","L","e","s","t","e">>
\* 'Laos'
n_laos ==
    <<"L","a","o","s">>
\* 'Lao PDR'
n_lao_pdr ==
    <<"L","a","o"," ","P","D","R">>
\* 'Macedonia'
n_macedonia ==
    <<"M","a","c","e","d","o","n","i","a">>
\* 'North Macedonia'
n_north_macedonia ==
    <<"N","o","r","t","h"," ","M","a","c","e","d","o","n","i","a">>
\* 'Swaziland'
n_swaziland ==
    <<"S","w","a","z","i","l","a","n","d">>
\* 'Eswatini'
n_eswatini ==
    <<"E","s","w","a","t","i","n","i">>
\* 'The Bahamas'
n_the_bahamas ==
    <<"T","h","e"," ","B","a","h","a","m","a","s">>
\* 'Bahamas'
n_bahamas ==
    <<"B","a","h","a","m","a","s">>
\* 'The Gambia'
n_the_gambia ==
    <<"T","h","e"," ","G","a","m","b","i","a">>
\* 'Gambia'
n_gambia ==
    <<"G","a","m","b","i","a">>
\* 'France'
n_france ==
    <<"F","r","a","n","c","e">>
\* 'Ireland'
n_ireland ==
    <<"I","r","e","l","a","n","d">>
\* 'Republic Of The Congo'
n_republic_of_the_congo_t ==
    <<"R","e","p","u","b","l","i","c"," ","O","f"," ","T","h","e"," ","C","o","n","g","o">>

\* the dict with one alias mapped to a name that is itself an alias
mapping_chained ==
    << <<n_usa, n_united_states>>,
       <<n_united_states_of_america, n_united_states>>,
       <<n_uk, n_united_kingdom>>,
       <<n_uae, n_united_arab_emirates>>,
       <<n_democratic_republic_of_the_congo_t, n_democratic_republic_of_the_congo>>,
       <<n_drc, n_democratic_republic_of_the_congo_t>>,
       <<n_congo, n_republic_of_the_congo>>,
       <<n_north_korea, n_north_korea>>,
       <<n_dpr_korea, n_north_korea>>,
       <<n_south_korea, n_south_korea>>,
       <<n_republic_of_korea, n_south_korea>>,
       <<n_czech_republic, n_czechia>>,
       <<n_cote_divoire_t, n_cote_divoire>>,
       <<n_ivory_coast, n_cote_divoire>>,
       <<n_burma, n_myanmar>>,
       <<n_cape_verde, n_cabo_verde>>,
       <<n_east_timor, n_timor_leste>>,
       <<n_laos, n_lao_pdr>>,
       <<n_macedonia, n_north_macedonia>>,
       <<n_swaziland, n_eswatini>>,
       <<n_the_bahamas, n_bahamas>>,
       <<n_the_gambia, n_gambia>> >>

\* the dict mapping, as its (key, value) items
mapping ==
    << <<n_usa, n_united_states>>,
       <<n_united_states_of_america, n_united_states>>,
       <<n_uk, n_united_kingdom>>,
       <<n_uae, n_united_arab_emirates>>,
       <<n_democratic_republic_of_the_congo_t, n_democratic_republic_of_the_congo>>,
       <<n_drc, n_democratic_republic_of_the_congo>>,
       <<n_congo, n_republic_of_the_congo>>,
       <<n_north_korea, n_north_korea>>,
       <<n_dpr_korea, n_north_korea>>,
       <<n_south_korea, n_south_korea>>,
       <<n_republic_of_korea, n_south_korea>>,
       <<n_czech_republic, n_czechia>>,
       <<n_cote_divoire_t, n_cote_divoire>>,
       <<n_ivory_coast, n_cote_divoire>>,
       <<n_burma, n_myanmar>>,
       <<n_cape_verde, n_cabo_verde>>,
       <<n_east_timor, n_timor_leste>>,
       <<n_laos, n_lao_pdr>>,
       <<n_macedonia, n_north_macedonia>>,
       <<n_swaziland, n_eswatini>>,
       <<n_the_bahamas, n_bahamas>>,
       <<n_the_gambia, n_gambia>> >>

MappingKeys == {mapping[i][1] : i \in 1..Len(mapping)}

\* d.get(key, default) on a dict given by its items
dict_get(items, key, default) ==
    IF \E i \in 1..Len(items) : items[i][1] = key
    THEN items[CHOOSE i \in 1..Len(items) : items[i][1] = key][2]
    ELSE default

standardize_country_name(country) == dict_get(mapping, country, country)

\* display names handed to the normalizer
Names == MappingKeys \cup {mapping[i][2] : i \in 1..Len(mapping)}
            \cup {n_france, n_ireland, n_republic_of_the_congo_t}

(***************************************************************************)
(* Dataset assembler: the tail of main.                                    *)
(***************************************************************************)
\* 'Normal Precautions'
l_normal_precautions ==
    <<"N","o","r","m","a","l"," ","P","r","e","c","a","u","t","i","o","n","s">>
\* 'High Degree of Caution'
l_high_degree_of_caution ==
    <<"H","i","g","h"," ","D","e","g","r","e","e"," ","o","f"," ","C","a","u","t","i","o","n">>
\* 'Avoid Unnecessary Travel'
l_avoid_unnecessary_travel ==
    <<"A","v","o","i","d"," ","U","n","n","e","c","e","s","s","a","r","y"," ","T","r","a","v","e","l">>
\* 'Do Not Travel'
l_do_not_travel ==
    <<"D","o"," ","N","o","t"," ","T","r","a","v","e","l">>

level_labels ==
    << <<1, l_normal_precautions>>,
       <<2, l_high_degree_of_caution>>,
       <<3, l_avoid_unnecessary_travel>>,
       <<4, l_do_not_travel>> >>

\* pandas isna / notna on a value of the advisory_level column
notna(level) == level # NoneLevel

\* countries_df with the columns advisory_level and country_standardized added
with_levels(rows, levels) ==
    [i \in 1..Len(rows) |->
        [country |-> rows[i].country,
         url |-> rows[i].url,
         advisory_level |-> levels[i],
         country_standardized |-> standardize_country_name(rows[i].country)]]

\* the filter left out: every row is kept
filter_notna_kept_all(rows) == rows

\* countries_df[countries_df['advisory_level'].notna()]
RECURSIVE filter_notna(_)
filter_notna(rows) ==
    IF rows = <<>> THEN <<>>
    ELSE IF notna(Head(rows).advisory_level)
         THEN <<Head(rows)>> \o filter_notna(Tail(rows))
         ELSE filter_notna(Tail(rows))

\* the column advisory_label added by Series.map(level_labels)
with_labels(rows) ==
    [i \in 1..Len(rows) |->
        [country |-> rows[i].country,
         url |-> rows[i].url,
         advisory_level |-> rows[i].advisory_level,
         country_standardized |-> rows[i].country_standardized,
         advisory_label |-> dict_get(level_labels, rows[i].advisory_level, <<>>)]]

\* countries_with_data as main builds it from the listing and the levels
assemble(rows, levels) == with_labels(filter_notna(with_levels(rows, levels)))

(***************************************************************************)
(* The state machine.                                                      *)
(*                                                                         *)
(* pc:  "idle"    main has not been run                                    *)
(*      "scan"    get_country_urls is in its loop over the anchors         *)
(*      "check"   get_country_urls has returned                            *)
(*      "loop"    main is in its loop over the rows of countries_df        *)
(*      "aborted" main returned at the check of the listing                *)
(*      "done"    main returned after writing the CSV                      *)
(*      "raised"  an exception left main                                   *)
(* mpc: "idle", "show", "png", "html", "returned", "raised" for create_map *)
(***************************************************************************)
MissingFile == [state |-> "missing", rows |-> <<>>]
MalformedFile == [state |-> "malformed", rows |-> <<>>]
CsvFile(rows) == [state |-> "valid", rows |-> rows]

MainRunning == pc \in {"scan", "check", "loop"}
MapRunning == mpc \in {"show", "png", "html"}

pipe_vars == <<pc, anchors, scanned, country_links, countries_df, advisory_levels,
               served, dataset, csv, failures, escaped, mpc, png, html>>
ex_vars == <<ex_resp, ex_level, ex_done>>
nm_vars == <<nm_in, nm_out>>

PipeIdle ==
    /\ pc = "idle"
    /\ scanned = 0
    /\ country_links = <<>>
    /\ countries_df = NoneFrame
    /\ advisory_levels = <<>>
    /\ served = <<>>
    /\ dataset = <<>>
    /\ failures = {}
    /\ escaped = {}
    /\ mpc = "idle"
    /\ png = FALSE
    /\ html = FALSE
ExIdle == ex_resp = FetchError /\ ex_level = NoneLevel /\ ex_done = FALSE
NmIdle == nm_in = <<>> /\ nm_out = <<>>

\* ---- get_country_urls ----

\* requests.get, raise_for_status and the parser succeed; country_links = []
FetchIndex ==
    /\ pc = "idle" /\ ~MapRunning
    /\ pc' = "scan"
    /\ scanned' = 0
    /\ country_links' = <<>>
    /\ UNCHANGED <<anchors, countries_df, advisory_levels, served, dataset, csv,
                   failures, escaped, mpc, png, html, ex_vars, nm_vars>>

\* one iteration of the loop over soup.find_all('a', href=True)
ScanAnchor ==
    /\ pc = "scan" /\ scanned < Len(anchors)
    /\ scanned' = scanned + 1
    /\ country_links' =
         IF IsCountryHref(anchors[scanned + 1])
         THEN Append(country_links, CountryLink(anchors[scanned + 1]))
         ELSE country_links
    /\ UNCHANGED <<pc, anchors, countries_df, advisory_levels, served, dataset, csv,
                   failures, escaped, mpc, png, html, ex_vars, nm_vars>>

\* df = pd.DataFrame(country_links).drop_duplicates(); return df
BuildFrame ==
    /\ pc = "scan" /\ scanned = Len(anchors)
    /\ countries_df' = Frame(drop_duplicates(country_links))
    /\ pc' = "check"
    /\ UNCHANGED <<anchors, scanned, country_links, advisory_levels, served, dataset,
                   csv, failures, escaped, mpc, png, html, ex_vars, nm_vars>>

\* the except branch returning the links collected so far instead of None
ListingExcept_partial ==
    /\ pc \in {"idle", "scan"} /\ ~MapRunning
    /\ failures' = failures \cup {"index"}
    /\ countries_df' = Frame(drop_duplicates(country_links))
    /\ pc' = "check"
    /\ UNCHANGED <<anchors, scanned, country_links, advisory_levels, served, dataset,
                   csv, escaped, mpc, png, html, ex_vars, nm_vars>>

\* an exception anywhere inside the try block: diagnostic printed, return None
ListingExcept ==
    /\ pc \in {"idle", "scan"} /\ ~MapRunning
    /\ failures' = failures \cup {"index"}
    /\ countries_df' = NoneFrame
    /\ pc' = "check"
    /\ UNCHANGED <<anchors, scanned, country_links, advisory_levels, served, dataset,
                   csv, escaped, mpc, png, html, ex_vars, nm_vars>>

\* ---- main ----

\* if countries_df is None or len(countries_df) == 0: return
listing_unusable(df) == df.none \/ Len(df.rows) = 0

CheckListing ==
    /\ pc = "check"
    /\ pc' = IF listing_unusable(countries_df) THEN "aborted" ELSE "loop"
    /\ UNCHANGED <<anchors, scanned, country_links, countries_df, advisory_levels, served,
                   dataset, csv, failures, escaped, mpc, png, html, ex_vars, nm_vars>>

\* the loop passing the url of the first row in every iteration
row_url_first(rows, k) == rows[1].url

\* the url the k-th iteration of the loop passes to get_advisory_level
row_url(rows, k) == rows[k].url

\* one iteration of the loop over countries_df.iterrows()
FetchCountry ==
    /\ pc = "loop" /\ Len(advisory_levels) < Len(countries_df.rows)
    /\ \E resp \in SmallResponses :
         /\ served' = Append(served,
                [url |-> row_url(countries_df.rows, Len(advisory_levels) + 1), resp |-> resp])
         /\ advisory_levels' = Append(advisory_levels, get_advisory_level(resp))
         /\ failures' = IF resp.ok THEN failures ELSE failures \cup {"country"}
    /\ UNCHANGED <<pc, anchors, scanned, country_links, countries_df, dataset, csv,
                   escaped, mpc, png, html, ex_vars, nm_vars>>

\* the columns are added, the rows filtered and labelled, and to_csv is called
SaveCsv ==
    /\ pc = "loop" /\ Len(advisory_levels) = Len(countries_df.rows)
    /\ dataset' = assemble(countries_df.rows, advisory_levels)
    /\ \E ok \in BOOLEAN :
         IF ok
         THEN /\ csv' = CsvFile(dataset')
              /\ pc' = "done"
              /\ UNCHANGED <<failures, escaped>>
         ELSE /\ failures' = failures \cup {"csv_write"}
              /\ escaped' = escaped \cup {"main"}
              /\ pc' = "raised"
              /\ UNCHANGED csv
    /\ UNCHANGED <<anchors, scanned, country_links, countries_df, advisory_levels,
                   served, mpc, png, html, ex_vars, nm_vars>>

\* ---- create_map ----

\* pd.read_csv and the construction of the figure
ReadCsv ==
    /\ mpc = "idle" /\ ~MainRunning
    /\ CASE csv.state = "missing" ->
              /\ failures' = failures \cup {"csv_missing"}
              /\ mpc' = "returned"
              /\ UNCHANGED escaped
         [] csv.state = "malformed" ->
              /\ failures' = failures \cup {"csv_malformed"}
              /\ escaped' = escaped \cup {"create_map"}
              /\ mpc' = "raised"
         [] csv.state = "valid" ->
              /\ mpc' = "show"
              /\ UNCHANGED <<failures, escaped>>
    /\ UNCHANGED <<pc, anchors, scanned, country_links, countries_df, advisory_levels,
                   served, dataset, csv, png, html, ex_vars, nm_vars>>

\* fig.show()
ShowFigure ==
    /\ mpc = "show"
    /\ \E ok \in BOOLEAN :
         IF ok
         THEN /\ mpc' = "png"
              /\ UNCHANGED <<failures, escaped>>
         ELSE /\ failures' = failures \cup {"show"}
              /\ escaped' = escaped \cup {"create_map"}
              /\ mpc' = "raised"
    /\ UNCHANGED <<pc, anchors, scanned, country_links, countries_df, advisory_levels,
                   served, dataset, csv, png, html, ex_vars, nm_vars>>

\* fig.write_image without the try / except around it
WritePng_uncaught ==
    /\ mpc = "png"
    /\ \E ok \in BOOLEAN :
         IF ok
         THEN /\ png' = TRUE
              /\ mpc' = "html"
              /\ UNCHANGED <<failures, escaped>>
         ELSE /\ failures' = failures \cup {"png"}
              /\ escaped' = escaped \cup {"create_map"}
              /\ mpc' = "raised"
              /\ UNCHANGED png
    /\ UNCHANGED <<pc, anchors, scanned, country_links, countries_df, advisory_levels,
                   served, dataset, csv, html, ex_vars, nm_vars>>

\* fig.write_image inside try / except Exception
WritePng ==
    /\ mpc = "png"
    /\ \E ok \in BOOLEAN :
         IF ok
         THEN /\ png' = TRUE
              /\ UNCHANGED failures
         ELSE /\ failures' = failures \cup {"png"}
              /\ UNCHANGED png
    /\ mpc' = "html"
    /\ UNCHANGED <<pc, anchors, scanned, country_links, countries_df, advisory_levels,
                   served, dataset, csv, escaped, html, ex_vars, nm_vars>>

\* fig.write_html
WriteHtml ==
    /\ mpc = "html"
    /\ \E ok \in BOOLEAN :
         IF ok
         THEN /\ html' = TRUE
              /\ mpc' = "returned"
              /\ UNCHANGED <<failures, escaped>>
         ELSE /\ failures' = failures \cup {"html"}
              /\ escaped' = escaped \cup {"create_map"}
              /\ mpc' = "raised"
              /\ UNCHANGED html
    /\ UNCHANGED <<pc, anchors, scanned, country_links, countries_df, advisory_levels,
                   served, dataset, csv, png, ex_vars, nm_vars>>

\* ---- the two stages, run one after the other in either order ----
Init ==
    /\ PipeIdle /\ ExIdle /\ NmIdle
    /\ anchors \in SeqsUpTo(HrefsSmall, MaxAnchors)
    /\ csv \in {MissingFile, MalformedFile}

Next ==
    \/ FetchIndex
    \/ ScanAnchor
    \/ BuildFrame
    \/ ListingExcept
    \/ CheckListing
    \/ FetchCountry
    \/ SaveCsv
    \/ ReadCsv
    \/ ShowFigure
    \/ WritePng
    \/ WriteHtml

Spec == Init /\ [][Next]_vars

\* ---- the listing parser alone, over every href of the index page ----
InitListing ==
    /\ PipeIdle /\ ExIdle /\ NmIdle
    /\ anchors \in SeqsUpTo(Hrefs, MaxAnchors)
    /\ csv = MissingFile

NextListing ==
    \/ FetchIndex
    \/ ScanAnchor
    \/ BuildFrame
    \/ ListingExcept

SpecListing == InitListing /\ [][NextListing]_vars

\* ---- the advisory extractor alone, over every response ----
Extract ==
    /\ ~ex_done
    /\ ex_level' = get_advisory_level(ex_resp)
    /\ ex_done' = TRUE
    /\ UNCHANGED <<ex_resp, pipe_vars, nm_vars>>

InitExtract ==
    /\ PipeIdle /\ NmIdle
    /\ anchors = <<>>
    /\ csv = MissingFile
    /\ ex_resp \in Responses
    /\ ex_level = NoneLevel
    /\ ex_done = FALSE

NextExtract == Extract

SpecExtract == InitExtract /\ [][NextExtract]_vars

\* ---- the name normalizer alone, applied repeatedly to its own result ----
Normalize ==
    /\ Len(nm_out) < MaxCalls
    /\ nm_out' = Append(nm_out,
            standardize_country_name(IF nm_out = <<>> THEN nm_in ELSE nm_out[Len(nm_out)]))
    /\ UNCHANGED <<nm_in, pipe_vars, ex_vars>>

InitNormalize ==
    /\ PipeIdle /\ ExIdle
    /\ anchors = <<>>
    /\ csv = MissingFile
    /\ nm_in \in Names
    /\ nm_out = <<>>

NextNormalize == Normalize

SpecNormalize == InitNormalize /\ [][NextNormalize]_vars

(***************************************************************************)
(* Properties.                                                             *)
(***************************************************************************)
Max(S) == CHOOSE m \in S : \A x \in S : x <= m

ListingReturned == pc = "check" /\ ~countries_df.none
MainEnded == pc \in {"done", "raised"}

\* the path segments of an href: the non-empty parts of its path between
\* slashes; for an absolute href the scheme and the host are not part of the path
path_segments(href) ==
    LET parts == split(href, "/")
        path  == IF startswith(href, s_http) /\ Len(parts) >= 3
                 THEN SubSeq(parts, 4, Len(parts)) ELSE parts
    IN  Cardinality({i \in 1..Len(path) : path[i] # <<>>})

\* the levels whose marker occurs in a lower-cased class string / title text
ClassMarkerLevels(s) ==
    {l \in Levels :
        \/ l = 4 /\ str_in(m_do_not_travel, s)
        \/ l = 3 /\ (str_in(m_avoid_non_essential_travel, s) \/ str_in(m_avoid_unnecessary_travel, s))
        \/ l = 2 /\ (str_in(m_high_degree_of_caution, s) \/ str_in(m_high_degree_caution, s))
        \/ l = 1 /\ str_in(m_normal_precautions, s)}
TitleMarkerLevels(s) ==
    {l \in Levels :
        \/ l = 4 /\ str_in(t_do_not_travel, s)
        \/ l = 3 /\ (str_in(t_avoid_non_essential_travel, s) \/ str_in(t_avoid_unnecessary_travel, s))
        \/ l = 2 /\ str_in(t_high_degree_of_caution, s)
        \/ l = 1 /\ str_in(t_normal_precautions, s)}

\* the levels whose marker is in the class attribute of the page's primary
\* container / in the text of the page's secondary heading
PageClassMarkers(page) ==
    IF find_advisory_div(page) # 0
    THEN ClassMarkerLevels(lower(page.divs[find_advisory_div(page)]))
    ELSE {}
PageHeadingMarkers(page) ==
    IF find_accordion_title(page) # 0
    THEN TitleMarkerLevels(lower(page.h3s[find_accordion_title(page)].text))
    ELSE {}

\* the page handed to the extractor, and what is on it
ExPage == ex_resp.page
ExHasContainer == ex_resp.ok /\ find_advisory_div(ExPage) # 0
ExHasHeading == ex_resp.ok /\ find_accordion_title(ExPage) # 0
ExClassAttr == lower(ExPage.divs[find_advisory_div(ExPage)])
ExHeadingText == lower(ExPage.h3s[find_accordion_title(ExPage)].text)
ExClassMarkers == IF ex_resp.ok THEN PageClassMarkers(ExPage) ELSE {}
ExHeadingMarkers == IF ex_resp.ok THEN PageHeadingMarkers(ExPage) ELSE {}

\* ---------------------------------------------------------------------------
\* C1: every anchor whose href has fewer than five path segments or contains
\* an exclusion keyword (in any letter case) is excluded: the listing that
\* get_country_urls returns has no CountryLink for such an href.
C1_ExcludedHrefsGiveNoLink ==
    ListingReturned =>
        \A i \in 1..Len(anchors) :
            (path_segments(anchors[i]) < 5 \/ HasExclusionKeyword(anchors[i]))
                => \A j \in 1..Len(countries_df.rows) :
                        countries_df.rows[j].url # full_url(anchors[i])

\* ---------------------------------------------------------------------------
\* C2 as stated: whenever the examined input (the class attribute of the
\* primary container, or the heading text when the heading is examined)
\* contains "do not travel" in any letter case, the result is 4.
C2_Original_DoNotTravelTextGives4 ==
    (ex_done /\ ex_resp.ok) =>
        /\ (ExHasContainer /\ str_in(t_do_not_travel, ExClassAttr)) => ex_level = 4
        /\ (~ExHasContainer /\ ExHasHeading /\ str_in(t_do_not_travel, ExHeadingText))
                => ex_level = 4

\* C2 amended: the result is 4 whenever the class attribute of the primary
\* container contains the hyphenated marker "do-not-travel" in any letter
\* case, and whenever the heading is examined (no primary container, or a
\* container whose class carries no marker) and its text contains
\* "do not travel" in any letter case.
C2_DoNotTravelMarkerGives4 ==
    (ex_done /\ ex_resp.ok) =>
        /\ (ExHasContainer /\ str_in(m_do_not_travel, ExClassAttr)) => ex_level = 4
        /\ (ExClassMarkers = {} /\ ExHasHeading /\ str_in(t_do_not_travel, ExHeadingText))
                => ex_level = 4

C2_Witness ==
    /\ ex_done /\ ex_resp.ok
    /\ ExPage.divs = <<c_dnt_mixed>>
    /\ ex_level = 4

\* ---------------------------------------------------------------------------
\* C3: when the input that decides the result (the class string of the
\* container if it carries a marker, else the heading text) contains markers
\* of several levels, the result is the highest of those levels.
C3_HighestPriorityMarkerWins ==
    (ex_done /\ ex_resp.ok) =>
        /\ Cardinality(ExClassMarkers) >= 2 => ex_level = Max(ExClassMarkers)
        /\ (ExClassMarkers = {} /\ Cardinality(ExHeadingMarkers) >= 2)
                => ex_level = Max(ExHeadingMarkers)

C3_Witness ==
    /\ ex_done /\ ex_resp.ok
    /\ ExClassMarkers = {2, 4}
    /\ ex_level = 4

\* ---------------------------------------------------------------------------
\* C4: standardize_country_name is idempotent, and a name that is not a key
\* of the table is returned unchanged.
C4_NormalizerIdempotent ==
    /\ \A k \in 2..Len(nm_out) : nm_out[k] = nm_out[1]
    /\ (Len(nm_out) >= 1 /\ nm_in \notin MappingKeys) => nm_out[1] = nm_in

C4_Witness ==
    /\ Len(nm_out) >= 2
    /\ nm_in \in MappingKeys
    /\ nm_out[1] # nm_in
    /\ nm_out[2] = nm_out[1]

\* ---------------------------------------------------------------------------
\* C5: the dataset main assembles (and the CSV it writes) has a row exactly
\* for the countries whose level was determined, every row has a level in
\* 1..4 and the label the table gives for that level.
LabelOf(level) ==
    CASE level = 1 -> l_normal_precautions
      [] level = 2 -> l_high_degree_of_caution
      [] level = 3 -> l_avoid_unnecessary_travel
      [] level = 4 -> l_do_not_travel
      [] OTHER -> <<>>

Determined == {i \in 1..Len(advisory_levels) : advisory_levels[i] # NoneLevel}

C5_NoRowWithoutLevel ==
    MainEnded =>
        /\ pc = "done" => csv = CsvFile(dataset)
        /\ \A j \in 1..Len(dataset) :
              /\ dataset[j].advisory_level \in Levels
              /\ dataset[j].advisory_label = LabelOf(dataset[j].advisory_level)
        /\ Len(dataset) = Cardinality(Determined)
        /\ \A i \in 1..Len(countries_df.rows) :
              (i \in Determined) <=>
                  \E j \in 1..Len(dataset) :
                      /\ dataset[j].country = countries_df.rows[i].country
                      /\ dataset[j].url = countries_df.rows[i].url
                      /\ dataset[j].advisory_level = advisory_levels[i]

C5_Witness ==
    /\ pc = "done"
    /\ Len(countries_df.rows) = 2
    /\ advisory_levels[1] = NoneLevel
    /\ advisory_levels[2] = 4
    /\ Len(csv.rows) = 1
    /\ csv.rows[1].advisory_label = l_do_not_travel

\* ---------------------------------------------------------------------------
\* C6 as stated: no exception propagates out of main or create_map.
C6_Original_NothingEscapes == escaped = {}

\* C6 amended: the failures that are caught are a failure of the listing
\* (run aborted), of a country page (absent level), a missing CSV (run
\* aborted) and a failed PNG export (export skipped, HTML export still
\* attempted); a failure to write the CSV propagates out of main, and a
\* malformed CSV, a failure to display the figure and a failure to write the
\* HTML propagate out of create_map.
C6_CaughtAndPropagatedFailures ==
    /\ ("main" \in escaped) <=> ("csv_write" \in failures)
    /\ ("create_map" \in escaped)
          <=> (failures \cap {"csv_malformed", "show", "html"} # {})
    /\ ("main" \in escaped) <=> (pc = "raised")
    /\ ("create_map" \in escaped) <=> (mpc = "raised")
    /\ "index" \in failures => pc \in {"check", "aborted"}
    /\ \A i \in 1..Len(served) : ~served[i].resp.ok => advisory_levels[i] = NoneLevel
    /\ "csv_missing" \in failures => mpc = "returned" /\ ~png /\ ~html
    /\ "png" \in failures => ~png /\ mpc \in {"html", "returned", "raised"}
    /\ ("png" \in failures /\ "html" \notin failures /\ mpc # "html") => html

C6_Witness ==
    /\ "png" \in failures
    /\ "country" \in failures
    /\ escaped = {}
    /\ pc = "done"
    /\ mpc = "returned"
    /\ html

\* ---------------------------------------------------------------------------
\* C7: main's loop fetches every row of the listing exactly once, in listing
\* order, whatever the earlier outcomes; a failed fetch gives an absent level
\* and every level recorded is the extraction on the response of the row's
\* own url.
C7_EveryCountryFetchedOnce ==
    /\ Len(served) = Len(advisory_levels)
    /\ Len(served) <= Len(countries_df.rows)
    /\ \A i \in 1..Len(served) :
          /\ served[i].url = countries_df.rows[i].url
          /\ ~served[i].resp.ok => advisory_levels[i] = NoneLevel
          /\ served[i].resp.ok =>
                advisory_levels[i] =
                    IF PageClassMarkers(served[i].resp.page) # {}
                    THEN Max(PageClassMarkers(served[i].resp.page))
                    ELSE IF PageHeadingMarkers(served[i].resp.page) # {}
                    THEN Max(PageHeadingMarkers(served[i].resp.page))
                    ELSE NoneLevel
    /\ \A i, j \in 1..Len(served) : i # j => served[i].url # served[j].url
    /\ MainEnded => Len(served) = Len(countries_df.rows)

C7_Witness ==
    /\ pc = "done"
    /\ Len(served) = 2
    /\ ~served[1].resp.ok
    /\ advisory_levels[1] = NoneLevel
    /\ served[2].resp.ok
    /\ advisory_levels[2] = 2

\* ---------------------------------------------------------------------------
\* C8: a failure during listing discovery makes get_country_urls return None
\* whatever links were collected, and main then fetches no country page and
\* writes no dataset file; the same holds when the listing is empty.
C8_ListingFailureIsTerminal ==
    /\ "index" \in failures => countries_df.none
    /\ (pc \notin {"idle", "scan"} /\ listing_unusable(countries_df)) =>
          /\ pc \in {"check", "aborted"}
          /\ served = <<>>
          /\ advisory_levels = <<>>
          /\ csv.state # "valid"
          /\ "csv_write" \notin failures

C8_Witness ==
    /\ "index" \in failures
    /\ country_links # <<>>
    /\ pc = "aborted"
    /\ mpc \in {"returned", "raised"}

\* ---------------------------------------------------------------------------
\* C9 as stated: when a primary container is present, the result is decided
\* by its class attribute alone and is absent if the class carries no marker,
\* whatever the heading says.
C9_Original_HeadingOnlyWithoutContainer ==
    (ex_done /\ ExHasContainer) =>
        ex_level = IF ExClassMarkers = {} THEN NoneLevel ELSE Max(ExClassMarkers)

\* C9 amended: the heading is consulted when no primary container is found
\* and also when the container's class attribute carries no level marker;
\* when the class attribute carries a marker, it alone decides the result.
C9_HeadingWhenClassHasNoMarker ==
    (ex_done /\ ex_resp.ok) =>
        ex_level = IF ExClassMarkers # {} THEN Max(ExClassMarkers)
                   ELSE IF ExHeadingMarkers # {} THEN Max(ExHeadingMarkers)
                   ELSE NoneLevel

C9_Witness ==
    /\ ex_done
    /\ ExHasContainer
    /\ ExClassMarkers = {}
    /\ ExHeadingMarkers # {}
    /\ ex_level # NoneLevel

\* ---------------------------------------------------------------------------
\* C10 as stated: no two records of the listing have the same country
\* display name.
C10_Original_OneRecordPerName ==
    ListingReturned =>
        \A i, j \in 1..Len(countries_df.rows) :
            i # j => countries_df.rows[i].country # countries_df.rows[j].country

\* C10 amended: no two records of the listing have the same (country, url)
\* pair, and every kept anchor has its record; hrefs that give the same
\* country and the same url (a relative and an absolute form) are merged,
\* hrefs that give the same country under different urls (with and without a
\* trailing slash) are not.
C10_OneRecordPerCountryUrlPair ==
    ListingReturned =>
        /\ \A i, j \in 1..Len(countries_df.rows) :
              i # j => countries_df.rows[i] # countries_df.rows[j]
        /\ \A i \in 1..Len(anchors) :
              IsCountryHref(anchors[i]) <=>
                  \E j \in 1..Len(countries_df.rows) :
                      countries_df.rows[j] = CountryLink(anchors[i])

C10_Witness ==
    /\ ListingReturned
    /\ Len(country_links) = 2
    /\ country_links[1].url = country_links[2].url
    /\ Len(countries_df.rows) = 1

====
